---- MODULE Spec2Model ----
(***************************************************************************)
(* Model of the chess game against an engine worker:                       *)
(*   - the engine session hook       (src/src/hooks/useStockfish.ts)       *)
(*   - the worker script it spawns   (the workerCode string of that hook)  *)
(*   - the game orchestrator         (src/src/components/ChessGame.tsx)    *)
(* The rules engine (chess.js) is a library outside the repository.  It is *)
(* modelled by a fragment of chess: the initial position restricted to the *)
(* moves of the set Moves below.  Legality, check and checkmate of the     *)
(* fragment are the ones of chess.                                         *)
(* The model is untimed: a timer that is armed may fire at any later step, *)
(* except that on one thread a timer never overtakes an earlier timer      *)
(* whose delay is not longer.                                              *)
(***************************************************************************)
EXTENDS Integers, Sequences, FiniteSets, TLC

\* ------------------------------------------------------------------ bounds
\* longest game explored, in half-moves of the pieces the fragment moves
\* from their first squares
MaxPly == 4
\* number of requestMove calls explored
MaxReq == 2
\* capacity of the main thread's timer list
MaxTimers == 2
\* capacity of each message channel between the threads
MaxChan == 1
\* largest search depth reported by an info line
MaxDepth == 1
\* half-move clock at which the rules engine declares a draw.  chess.js uses
\* 100 (the fifty-move rule); the model scales it down so that a drawn
\* position with legal moves is reached within MaxPly.
DrawHalfMoves == 2

\* ------------------------------------------------------- program constants
\* requestMove's deadline in ms
RequestTimeout == 500
\* onDrop's delay before the engine is asked
BotMoveDelay == 200
\* startGame's delay before the engine is asked for the first move
FirstMoveDelay == 2000
\* the worker's backup timeout per search, and the movetime of its go command
BackupTimeout == 300
MoveTime == 150
\* the timings of each implementation of the engine hook in ms: the deadline
\* requestMove arms, the backup timeout the worker arms per search, and the
\* time budgets of the go command (none for go depth 20)
HookTimings ==
  { [hook |-> "src/hooks/useStockfish.ts", deadline |-> RequestTimeout,
     backup |-> BackupTimeout, budget |-> {MoveTime}],
    [hook |-> "unnamed/part_004", deadline |-> 200, backup |-> 300, budget |-> {150}],
    [hook |-> "unnamed/part_002", deadline |-> 5000, backup |-> 10000, budget |-> {}] }

\* ------------------------------------------------------------ rules engine
\* the moves of the fragment, in the engine's coordinate notation
\* a white pawn on h7 taking on g8 and promoting, to a queen or to a knight
PromotionMoves == {"h7g8q", "h7g8n"}
WhiteMoves == {"f2f3", "g2g4", "g2g3", "b1c3"} \cup PromotionMoves
BlackMoves == {"e7e5", "d8h4", "b8c6"}
Moves == WhiteMoves \cup BlackMoves
\* what the unit may answer that is no move at all
NoMove == "(none)"

\* new Chess().fen(): the squares of the pieces the fragment can move (h is
\* White's h-pawn, hk the kind of piece it is), the side to move, the
\* half-move clock and the full-move number
InitialPosition ==
  [f |-> "f2", g |-> "g2", wn |-> "b1", e |-> "e7", q |-> "d8", bn |-> "b8",
   h |-> "h2", hk |-> "p", turn |-> "w", half |-> 0, full |-> 1]

\* no position: what replaying a log gives when one of its entries is no
\* legal move, and what Stockfish would search had no position been set
NoPosition == [InitialPosition EXCEPT !.turn = "-"]

MoveFrom(m) == SubSeq(m, 1, 2)
MoveTo(m) == SubSeq(m, 3, 4)
MoveColor(m) == IF m \in WhiteMoves THEN "w" ELSE "b"
\* what a value has when it is undefined
Undefined == ""
\* the promotion of a move the rules engine generates
MovePromotion(m) == IF m \in PromotionMoves THEN SubSeq(m, 5, 5) ELSE Undefined
\* the field of the position that holds the piece a move of the fragment moves
MoveField(m) ==
  CASE m \in {"f2f3"} -> "f"
    [] m \in {"g2g4", "g2g3"} -> "g"
    [] m \in {"b1c3"} -> "wn"
    [] m \in PromotionMoves -> "h"
    [] m \in {"e7e5"} -> "e"
    [] m \in {"d8h4"} -> "q"
    [] OTHER -> "bn"
IsPawnMove(m) == MoveField(m) \in {"f", "g", "e", "h"}

\* the white king on e1 is attacked by the queen on h4 along h4-g3-f2-e1
WhiteInCheck(p) == p.q = "h4" /\ p.f = "f3" /\ p.g # "g3"

\* the position after a move, legality not considered
Moved(p, m) ==
  [p EXCEPT ![MoveField(m)] = MoveTo(m),
            !.hk = IF m \in PromotionMoves THEN MovePromotion(m) ELSE p.hk,
            !.turn = IF p.turn = "w" THEN "b" ELSE "w",
            !.half = IF IsPawnMove(m) THEN 0 ELSE p.half + 1,
            !.full = IF p.turn = "b" THEN p.full + 1 ELSE p.full]

\* the moves of the fragment that chess allows in p
Legal(p, m) ==
  /\ m \in Moves
  /\ MoveColor(m) = p.turn
  /\ p[MoveField(m)] = MoveFrom(m)
  /\ (m = "d8h4" => p.e = "e5")
  /\ (p.turn = "w" => ~WhiteInCheck(Moved(p, m)))
LegalMoves(p) == {m \in Moves : Legal(p, m)}

IsCheck(p) == p.turn = "w" /\ WhiteInCheck(p)
\* in check, and the g-pawn, the only piece able to interpose, is past g3
IsCheckmate(p) == IsCheck(p) /\ p.g = "g4"
IsDraw(p) == p.half >= DrawHalfMoves
IsGameOver(p) == IsCheckmate(p) \/ IsDraw(p)

\* the letters of piece codes and promotion kinds, lower case to upper case
UpperOf(c) ==
  CASE c = "q" -> "Q" [] c = "r" -> "R" [] c = "b" -> "B" [] c = "n" -> "N"
    [] c = "p" -> "P" [] c = "k" -> "K" [] OTHER -> c
\* String.prototype.toLowerCase on one character
LowerOf(c) ==
  CASE c = "Q" -> "q" [] c = "R" -> "r" [] c = "B" -> "b" [] c = "N" -> "n"
    [] c = "P" -> "p" [] c = "K" -> "k" [] OTHER -> c
\* piece.toLowerCase().includes(c)
LowerIncludes(piece, c) == \E i \in 1..Len(piece) : LowerOf(SubSeq(piece, i, i)) = c

\* the moves the fragment pieces other than the h-pawn have made in p
Plies(p) ==
  Cardinality({x \in {"f", "g", "wn", "e", "q", "bn"} : p[x] # InitialPosition[x]})

\* move.san: the move in standard algebraic notation
San(p, m) ==
  LET base == CASE MoveField(m) \in {"f", "g", "e"} -> MoveTo(m)
                [] MoveField(m) = "h" -> "hxg8=" \o UpperOf(MovePromotion(m))
                [] MoveField(m) = "q" -> "Q" \o MoveTo(m)
                [] OTHER -> "N" \o MoveTo(m)
      np == Moved(p, m)
  IN base \o (IF IsCheckmate(np) THEN "#" ELSE IF IsCheck(np) THEN "+" ELSE "")

\* the status naming the side to move as the winner
StatusOfMoverLoses(p) ==
  IF IsCheckmate(p)
    THEN (IF p.turn = "w" THEN "Checkmate! White wins!" ELSE "Checkmate! Black wins!")
  ELSE IF IsDraw(p) THEN "Draw!"
  ELSE IF IsCheck(p) THEN "Check!"
  ELSE "Game in progress"

\* the status line computed after an applied move
StatusOf(p) ==
  IF IsCheckmate(p)
    THEN (IF p.turn = "w" THEN "Checkmate! Black wins!" ELSE "Checkmate! White wins!")
  ELSE IF IsDraw(p) THEN "Draw!"
  ELSE IF IsCheck(p) THEN "Check!"
  ELSE "Game in progress"

\* game.get(square): the colour of the piece on a square, "" when empty
PieceColorAt(p, sq) ==
  IF sq \in {p.f, p.g, p.wn, p.h} THEN "w"
  ELSE IF sq \in {p.e, p.q, p.bn} THEN "b"
  ELSE ""
\* game.moves({ square, verbose: true }).map(move => move.to)
TargetsFrom(p, sq) == {MoveTo(m) : m \in {x \in LegalMoves(p) : MoveFrom(x) = sq}}
\* the squares the fragment can name
Squares == {MoveFrom(m) : m \in Moves} \cup {MoveTo(m) : m \in Moves}

\* newGame.move({from, to, promotion}): the legal move with these squares
\* and, where the legal move promotes, with this promotion; NoMove when the
\* rules engine rejects them
FindMove(p, from, to, promotion) ==
  LET found == {m \in Moves :
                  /\ MoveFrom(m) = from
                  /\ MoveTo(m) = to
                  /\ (MovePromotion(m) = Undefined \/ promotion = MovePromotion(m))
                  /\ Legal(p, m)}
  IN IF found = {} THEN NoMove ELSE CHOOSE m \in found : TRUE

\* ------------------------------------------------------------------- state
VARIABLES
  gs,                 \* ChessGame: the gameState object
  timers,             \* main thread: the armed setTimeout timers, oldest first
  isReady,            \* useStockfish: isReady
  workerRef,          \* useStockfish: TRUE when workerRef.current is a Worker
  pendingCallbackRef, \* useStockfish: request whose onMove is stored, 0 = null
  errorCallbackRef,   \* useStockfish: request whose onError is stored, 0 = null
  timeoutRef,         \* useStockfish: request whose timer handle is stored, 0 = null
  analysisDepth,      \* useStockfish: analysisDepth
  wstate,             \* worker script: "booting", "stockfish", "fallback", "terminated", "none"
  isEngineReady,      \* worker script: isEngineReady
  sfProbe,            \* Stockfish: an isready awaits its readyok
  sfSearch,           \* Stockfish: the go commands awaiting their bestmove line
  wTimers,            \* worker thread: the armed setTimeout timers, oldest first
  toWorker,           \* messages posted to the worker, not yet handled
  toMain,             \* messages posted by the worker, not yet handled
  calls,              \* history: one record per requestMove call
  last                \* history: what the handler that ran last did with a drop

vars == <<gs, timers, isReady, workerRef, pendingCallbackRef, errorCallbackRef,
          timeoutRef, analysisDepth, wstate, isEngineReady, sfProbe, sfSearch,
          wTimers, toWorker, toMain, calls, last>>
sessionVars == <<isReady, workerRef, pendingCallbackRef, errorCallbackRef,
                 timeoutRef, analysisDepth>>
workerVars == <<wstate, isEngineReady, sfProbe, sfSearch, wTimers>>

NoSelection == [src |-> "", targets |-> {}]

\* the initial value of useState<GameState>
InitialGameState ==
  [playerName |-> "", playerGender |-> "", playerColor |-> "white",
   gameStarted |-> FALSE, gamePosition |-> InitialPosition,
   moveHistory |-> <<>>, gameStatus |-> "Game in progress",
   isPlayerTurn |-> TRUE, botThinking |-> FALSE,
   selectedSquares |-> NoSelection, moveCount |-> 0]

\* the tags of last: "illegal" after a drop the rules engine rejected, Other
\* after anything else
Other == "other"


\* ------------------------------------------------------------ orchestrator
\* startGame's state update
\* startGame's state update giving the first move to the human
StartedGameHumanFirst(g) ==
  [g EXCEPT !.gameStarted = TRUE, !.gamePosition = InitialPosition,
            !.moveHistory = <<>>, !.gameStatus = "Game in progress",
            !.isPlayerTurn = TRUE, !.botThinking = FALSE,
            !.selectedSquares = NoSelection, !.moveCount = 0]

StartedGame(g) ==
  [g EXCEPT !.gameStarted = TRUE, !.gamePosition = InitialPosition,
            !.moveHistory = <<>>, !.gameStatus = "Game in progress",
            !.isPlayerTurn = (g.playerColor = "white"), !.botThinking = FALSE,
            !.selectedSquares = NoSelection, !.moveCount = 0]

\* a resetGame that leaves the chosen colour as it is
ResetKeepsColor(g) ==
  [g EXCEPT !.gameStarted = FALSE, !.playerName = "", !.playerGender = "",
            !.gamePosition = InitialPosition,
            !.moveHistory = <<>>, !.gameStatus = "Game in progress",
            !.isPlayerTurn = TRUE, !.botThinking = FALSE,
            !.selectedSquares = NoSelection, !.moveCount = 0]

\* resetGame's state update
ResetState(g) ==
  [g EXCEPT !.gameStarted = FALSE, !.playerName = "", !.playerGender = "",
            !.playerColor = "white", !.gamePosition = InitialPosition,
            !.moveHistory = <<>>, !.gameStatus = "Game in progress",
            !.isPlayerTurn = TRUE, !.botThinking = FALSE,
            !.selectedSquares = NoSelection, !.moveCount = 0]

\* the same without the move being appended to the log
AppliedForgetsLog(g, m, toPlayer) ==
  LET np == Moved(g.gamePosition, m)
  IN [g EXCEPT !.gamePosition = np,
               !.gameStatus = StatusOf(np),
               !.isPlayerTurn = toPlayer,
               !.selectedSquares = NoSelection,
               !.moveCount = g.moveCount + 1]

\* the state after a move the rules engine accepted, turn handed to toPlayer
Applied(g, m, toPlayer) ==
  LET np == Moved(g.gamePosition, m)
  IN [g EXCEPT !.gamePosition = np,
               !.moveHistory = Append(g.moveHistory, San(g.gamePosition, m)),
               !.gameStatus = StatusOf(np),
               !.isPlayerTurn = toPlayer,
               !.selectedSquares = NoSelection,
               !.moveCount = g.moveCount + 1]

\* makeBotMove's state update: the move string is cut into from, to and
\* promotion
BotMoveResult(g, moveString) ==
  LET m == FindMove(g.gamePosition, SubSeq(moveString, 1, 2), SubSeq(moveString, 3, 4),
                    SubSeq(moveString, 5, Len(moveString)))
  IN IF m # NoMove
       THEN [Applied(g, m, TRUE) EXCEPT !.botThinking = FALSE]
       ELSE [g EXCEPT !.botThinking = FALSE]

\* onDrop without the rules engine's verdict: the move is made as dropped
DropResultUnchecked(g, from, to, piece) ==
  IF (from \o to) \in Moves THEN Applied(g, from \o to, FALSE) ELSE g

\* the promotion onDrop hands to the rules engine for the piece dropped
PromotionOf(piece) == IF LowerIncludes(piece, "q") THEN "q" ELSE Undefined

\* onDrop's state update, after its guard
DropResult(g, from, to, piece) ==
  LET m == FindMove(g.gamePosition, from, to, PromotionOf(piece))
  IN IF m # NoMove THEN Applied(g, m, FALSE) ELSE g

\* onDrop's guard: the drop is looked at only on the player's turn
DropGuard(g) == g.isPlayerTurn /\ ~g.botThinking

\* an onError that also hands the turn to the player
OnErrorHandsTurn(g) == [g EXCEPT !.botThinking = FALSE, !.isPlayerTurn = TRUE]

\* the callback requestBotMove passes as onError
OnErrorResult(g) == [g EXCEPT !.botThinking = FALSE]

\* ------------------------------------------------------------------ timers
BotTimer(delay, fen, ready) ==
  [kind |-> "bot", delay |-> delay, fen |-> fen, ready |-> ready, req |-> 0]
DeadlineTimer(r) ==
  [kind |-> "deadline", delay |-> RequestTimeout, fen |-> InitialPosition,
   ready |-> TRUE, req |-> r]

RECURSIVE Without(_, _)
\* clearTimeout: the list without the deadline timer of request r
Without(ts, r) ==
  IF ts = <<>> THEN <<>>
  ELSE IF Head(ts).kind = "deadline" /\ Head(ts).req = r THEN Without(Tail(ts), r)
  ELSE <<Head(ts)>> \o Without(Tail(ts), r)

RemoveAt(ts, i) == SubSeq(ts, 1, i - 1) \o SubSeq(ts, i + 1, Len(ts))

\* timer i is due before every timer armed earlier with a delay not longer
CanFire(ts, i) == \A j \in 1..(i - 1) : ts[j].delay > ts[i].delay

DeadlineTimers == {i \in 1..Len(timers) : timers[i].kind = "deadline"}
BotTimers == {i \in 1..Len(timers) : timers[i].kind = "bot"}

\* ----------------------------------------------------------------- session
\* the history of one requestMove call: whether the session accepted it, how
\* often its onMove and its onError were invoked, what invoked its onError
\* (for a rejected call: the worker reference was null, or else the caller's
\* isReady was false),
\* whether a bestmove computed for it was handled without invoking a
\* callback, whether startGame or resetGame ran since it was issued, and how
\* many terminal messages (bestmove or error) the worker posted for its
\* position command
Call(accepted) ==
  [accepted |-> accepted, moves |-> 0,
   errors |-> IF accepted THEN 0 ELSE 1,
   by |-> IF accepted THEN "" ELSE IF workerRef THEN "notready" ELSE "noworker",
   dropped |-> FALSE, stale |-> FALSE, terminals |-> 0]
\* the calls issued so far belong to a game that is over
Stale(cs) == [r \in DOMAIN cs |-> [cs[r] EXCEPT !.stale = TRUE]]
\* the worker posts a terminal message for the position command of request r
Answered(cs, r) == [cs EXCEPT ![r].terminals = @ + 1]
\* onError of request r invoked by a handler
Failed(cs, r, by) == [cs EXCEPT ![r].errors = @ + 1, ![r].by = by]

\* a message of the worker: type, move and depth as posted; req and fen are
\* history: the request the message answers and, for a bestmove, the
\* position it was computed for
Msg(type, move, depth, req, fen) ==
  [type |-> type, move |-> move, depth |-> depth, req |-> req, fen |-> fen]

\* bound of the exploration: a delayed requestBotMove is armed only while
\* the requestMove call it leads to is within MaxReq
CanArm == Len(timers) < MaxTimers /\ Len(calls) + Cardinality(BotTimers) < MaxReq

\* ------------------------------------------------------------------- Init
Init ==
  /\ gs = InitialGameState
  /\ timers = <<>>
  /\ workerRef \in BOOLEAN
  \* new Worker(...) threw: the catch block sets isReady
  /\ isReady = ~workerRef
  /\ pendingCallbackRef = 0
  /\ errorCallbackRef = 0
  /\ timeoutRef = 0
  /\ analysisDepth = 0
  /\ wstate = IF workerRef THEN "booting" ELSE "none"
  /\ isEngineReady = FALSE
  /\ sfProbe = FALSE
  /\ sfSearch = <<>>
  /\ wTimers = <<>>
  /\ toWorker = <<>>
  /\ toMain = <<>>
  /\ calls = <<>>
  /\ last = Other

\* --------------------------------------------------- orchestrator actions
\* the setup form, shown while no game is started
\* playerName.trim() for the names the user types here
Trim(n) == IF n = " " THEN "" ELSE n

SetName(n) ==
  /\ ~gs.gameStarted
  /\ gs.playerName # n
  /\ gs' = [gs EXCEPT !.playerName = n]
  /\ last' = Other
  /\ UNCHANGED <<timers, sessionVars, workerVars, toWorker, toMain, calls>>

SetGender(x) ==
  /\ ~gs.gameStarted
  /\ gs.playerGender # x
  /\ gs' = [gs EXCEPT !.playerGender = x]
  /\ last' = Other
  /\ UNCHANGED <<timers, sessionVars, workerVars, toWorker, toMain, calls>>

SetColor(c) ==
  /\ ~gs.gameStarted
  /\ gs.playerColor # c
  /\ gs' = [gs EXCEPT !.playerColor = c]
  /\ last' = Other
  /\ UNCHANGED <<timers, sessionVars, workerVars, toWorker, toMain, calls>>

\* startGame, from the Start button (enabled when the engine is ready) or
\* from the Enter key in the name field (when a gender is selected)
StartGame(via) ==
  /\ ~gs.gameStarted
  /\ via = "button" => (Trim(gs.playerName) # "" /\ gs.playerGender # "" /\ isReady)
  /\ via = "enter" => gs.playerGender # ""
  /\ IF Trim(gs.playerName) # "" /\ gs.playerGender # ""
       THEN /\ gs.playerColor = "black" => CanArm
            /\ gs' = StartedGame(gs)
            /\ timers' = IF gs.playerColor = "black"
                           THEN Append(timers, BotTimer(FirstMoveDelay, InitialPosition, isReady))
                           ELSE timers
            /\ calls' = Stale(calls)
            /\ last' = Other
       ELSE /\ UNCHANGED <<gs, timers, calls>>
            /\ last' = Other
  /\ UNCHANGED <<sessionVars, workerVars, toWorker, toMain>>

\* resetGame, from the New Game button shown while a game is started
ResetGame ==
  /\ gs.gameStarted
  /\ gs' = ResetState(gs)
  /\ calls' = Stale(calls)
  /\ last' = Other
  /\ UNCHANGED <<timers, sessionVars, workerVars, toWorker, toMain>>

\* onDrop handing requestBotMove the position the move was made in
DropArmsOldPosition(from, to, piece) ==
  IF ~DropGuard(gs)
    THEN /\ last' = Other
         /\ UNCHANGED <<gs, timers>>
    ELSE LET m == FindMove(gs.gamePosition, from, to, PromotionOf(piece))
             ng == DropResult(gs, from, to, piece)
         IN IF m = NoMove
              THEN /\ gs' = ng
                   /\ last' = "illegal"
                   /\ UNCHANGED timers
              ELSE /\ Plies(gs.gamePosition) < MaxPly
                   /\ ~IsGameOver(ng.gamePosition) => CanArm
                   /\ gs' = ng
                   /\ timers' = IF ~IsGameOver(ng.gamePosition)
                                  THEN Append(timers, BotTimer(BotMoveDelay, gs.gamePosition, isReady))
                                  ELSE timers
                   /\ last' = Other

\* what onDrop(from, to, piece) does; the board exists while a game is started
Drop(from, to, piece) ==
  IF ~DropGuard(gs)
    THEN /\ last' = Other
         /\ UNCHANGED <<gs, timers>>
    ELSE LET m == FindMove(gs.gamePosition, from, to, PromotionOf(piece))
             ng == DropResult(gs, from, to, piece)
         IN IF m = NoMove
              THEN /\ gs' = ng
                   /\ last' = "illegal"
                   /\ UNCHANGED timers
              ELSE /\ Plies(gs.gamePosition) < MaxPly
                   /\ ~IsGameOver(ng.gamePosition) => CanArm
                   /\ gs' = ng
                   /\ timers' = IF ~IsGameOver(ng.gamePosition)
                                  THEN Append(timers, BotTimer(BotMoveDelay, ng.gamePosition, isReady))
                                  ELSE timers
                   /\ last' = Other

\* the piece argument the board passes to onPieceDrop for the move m the
\* human makes: the piece dragged, or for a promotion, with a board that
\* asks for the promotion piece, the piece chosen
DraggedPiece(m) ==
  CASE MoveField(m) \in {"f", "g", "h"} -> "wP"
    [] MoveField(m) = "wn" -> "wN"
    [] MoveField(m) = "e" -> "bP"
    [] MoveField(m) = "q" -> "bQ"
    [] OTHER -> "bN"
PiecesDropped(m) ==
  IF m \in PromotionMoves
    THEN {DraggedPiece(m), "w" \o UpperOf(MovePromotion(m))}
    ELSE {DraggedPiece(m)}

OnDrop(m) ==
  /\ gs.gameStarted
  /\ UNCHANGED <<sessionVars, workerVars, toWorker, toMain, calls>>
  /\ \E piece \in PiecesDropped(m) : Drop(MoveFrom(m), MoveTo(m), piece)

OnSquareClick(sq) ==
  /\ gs.gameStarted
  /\ IF ~DropGuard(gs)
       THEN /\ last' = Other
            /\ UNCHANGED <<gs, timers>>
     ELSE IF PieceColorAt(gs.gamePosition, sq) # ""
             /\ (PieceColorAt(gs.gamePosition, sq) = "w") = (gs.playerColor = "white")
       THEN /\ gs' = [gs EXCEPT !.selectedSquares =
                        [src |-> sq, targets |-> TargetsFrom(gs.gamePosition, sq)]]
            /\ last' = Other
            /\ UNCHANGED timers
     ELSE IF gs.selectedSquares.src # ""
       THEN IF sq = gs.selectedSquares.src \/ sq \in gs.selectedSquares.targets
              THEN Drop(gs.selectedSquares.src, sq, "")
              ELSE /\ gs' = [gs EXCEPT !.selectedSquares = NoSelection]
                   /\ last' = Other
                   /\ UNCHANGED timers
     ELSE /\ last' = Other
          /\ UNCHANGED <<gs, timers>>
  /\ UNCHANGED <<sessionVars, workerVars, toWorker, toMain, calls>>


\* --------------------------------------------------------- session actions
\* requestMove testing only the caller's isReady
RequestMoveIgnoresWorker(fen, ready, rest) ==
  LET r == Len(calls) + 1
  IN IF ~ready
       THEN /\ gs' = OnErrorResult([gs EXCEPT !.botThinking = TRUE])
            /\ calls' = Append(calls, Call(FALSE))
            /\ timers' = rest
            /\ last' = Other
            /\ UNCHANGED <<pendingCallbackRef, errorCallbackRef, timeoutRef, toWorker>>
       ELSE /\ Len(toWorker) < MaxChan
            /\ gs' = [gs EXCEPT !.botThinking = TRUE]
            /\ pendingCallbackRef' = r
            /\ errorCallbackRef' = r
            /\ timeoutRef' = r
            /\ timers' = Append(rest, DeadlineTimer(r))
            /\ toWorker' = Append(toWorker, [command |-> "position", fen |-> fen, req |-> r])
            /\ calls' = Append(calls, Call(TRUE))
            /\ last' = Other

\* requestMove testing only the worker reference
RequestMoveIgnoresReady(fen, ready, rest) ==
  LET r == Len(calls) + 1
  IN IF ~workerRef
       THEN /\ gs' = OnErrorResult([gs EXCEPT !.botThinking = TRUE])
            /\ calls' = Append(calls, Call(FALSE))
            /\ timers' = rest
            /\ last' = Other
            /\ UNCHANGED <<pendingCallbackRef, errorCallbackRef, timeoutRef, toWorker>>
       ELSE /\ Len(toWorker) < MaxChan
            /\ gs' = [gs EXCEPT !.botThinking = TRUE]
            /\ pendingCallbackRef' = r
            /\ errorCallbackRef' = r
            /\ timeoutRef' = r
            /\ timers' = Append(rest, DeadlineTimer(r))
            /\ toWorker' = Append(toWorker, [command |-> "position", fen |-> fen, req |-> r])
            /\ calls' = Append(calls, Call(TRUE))
            /\ last' = Other

\* requestMove(fen, onMove, onError) as requestBotMove calls it, after
\* requestBotMove has set botThinking; ready is the isReady the calling
\* closure captured, rest the timer list once the calling timer is gone
RequestMove(fen, ready, rest) ==
  LET r == Len(calls) + 1
  IN IF ~workerRef \/ ~ready
       THEN /\ gs' = OnErrorResult([gs EXCEPT !.botThinking = TRUE])
            /\ calls' = Append(calls, Call(FALSE))
            /\ timers' = rest
            /\ last' = Other
            /\ UNCHANGED <<pendingCallbackRef, errorCallbackRef, timeoutRef, toWorker>>
       ELSE /\ Len(toWorker) < MaxChan
            /\ gs' = [gs EXCEPT !.botThinking = TRUE]
            /\ pendingCallbackRef' = r
            /\ errorCallbackRef' = r
            /\ timeoutRef' = r
            /\ timers' = Append(rest, DeadlineTimer(r))
            /\ toWorker' = Append(toWorker, [command |-> "position", fen |-> fen, req |-> r])
            /\ calls' = Append(calls, Call(TRUE))
            /\ last' = Other

\* the timer callback without its last statement: onMove stays stored
DeadlineFiredKeepsOnMove(r, rest) ==
  /\ timers' = rest
  /\ IF errorCallbackRef # 0
       THEN /\ gs' = OnErrorResult(gs)
            /\ calls' = Failed(calls, errorCallbackRef, "deadline")
            /\ last' = Other
       ELSE /\ UNCHANGED <<gs, calls>>
            /\ last' = Other
  /\ errorCallbackRef' = 0
  /\ UNCHANGED <<pendingCallbackRef, timeoutRef, toWorker>>

\* the timer callback clearing the refs without calling onError
DeadlineFiredSilent(r, rest) ==
  /\ timers' = rest
  /\ UNCHANGED <<gs, calls>>
  /\ last' = Other
  /\ errorCallbackRef' = 0
  /\ pendingCallbackRef' = 0
  /\ UNCHANGED <<timeoutRef, toWorker>>

\* the callback of the timer requestMove armed for request r
DeadlineFired(r, rest) ==
  /\ timers' = rest
  /\ IF errorCallbackRef # 0
       THEN /\ gs' = OnErrorResult(gs)
            /\ calls' = Failed(calls, errorCallbackRef, "deadline")
            /\ last' = Other
       ELSE /\ UNCHANGED <<gs, calls>>
            /\ last' = Other
  /\ errorCallbackRef' = 0
  /\ pendingCallbackRef' = 0
  /\ UNCHANGED <<timeoutRef, toWorker>>

\* a timer of the main thread fires: the delayed requestBotMove of onDrop or
\* startGame, or the deadline of a request
TimerFire(i) ==
  /\ i \in 1..Len(timers)
  /\ CanFire(timers, i)
  /\ IF timers[i].kind = "bot"
       THEN /\ Len(calls) < MaxReq
            /\ RequestMove(timers[i].fen, timers[i].ready, RemoveAt(timers, i))
       ELSE DeadlineFired(timers[i].req, RemoveAt(timers, i))
  /\ UNCHANGED <<isReady, workerRef, analysisDepth, workerVars, toMain>>

\* the bestmove branch of workerRef.current.onmessage
OnBestmove(move, tag) ==
  /\ timers' = IF timeoutRef # 0 THEN Without(timers, timeoutRef) ELSE timers
  /\ timeoutRef' = 0
  /\ IF pendingCallbackRef # 0
       THEN LET ng == BotMoveResult(gs, move)
            IN /\ Plies(ng.gamePosition) <= MaxPly
               /\ gs' = ng
               /\ calls' = [calls EXCEPT ![pendingCallbackRef].moves = @ + 1]
               /\ last' = Other
       ELSE /\ gs' = gs
            /\ calls' = [calls EXCEPT ![tag].dropped = TRUE]
            /\ last' = Other
  /\ pendingCallbackRef' = 0
  /\ UNCHANGED <<isReady, analysisDepth, errorCallbackRef>>

\* the error branch of workerRef.current.onmessage
OnErrorMessage ==
  /\ timers' = IF timeoutRef # 0 THEN Without(timers, timeoutRef) ELSE timers
  /\ timeoutRef' = 0
  /\ IF errorCallbackRef # 0
       THEN /\ gs' = OnErrorResult(gs)
            /\ calls' = Failed(calls, errorCallbackRef, "message")
            /\ last' = Other
       ELSE /\ UNCHANGED <<gs, calls>>
            /\ last' = Other
  /\ errorCallbackRef' = 0
  /\ UNCHANGED <<isReady, analysisDepth, pendingCallbackRef>>

\* the analysis branch disarming the deadline as the terminal branches do
OnAnalysisDisarms(depth) ==
  /\ analysisDepth' = depth
  /\ timers' = IF timeoutRef # 0 THEN Without(timers, timeoutRef) ELSE timers
  /\ timeoutRef' = 0
  /\ last' = Other
  /\ UNCHANGED <<gs, calls, pendingCallbackRef, errorCallbackRef, isReady>>

\* the analysis branch of workerRef.current.onmessage
OnAnalysis(depth) ==
  /\ analysisDepth' = depth
  /\ last' = Other
  /\ UNCHANGED <<gs, timers, calls, pendingCallbackRef, errorCallbackRef,
                 timeoutRef, isReady>>

\* workerRef.current.onmessage, for the oldest message posted by the worker
SessionOnMessage ==
  /\ toMain # <<>>
  /\ toMain' = Tail(toMain)
  /\ LET msg == Head(toMain)
     IN CASE msg.type = "ready" ->
               /\ isReady' = TRUE
               /\ last' = Other
               /\ UNCHANGED <<gs, timers, calls, pendingCallbackRef,
                              errorCallbackRef, timeoutRef, analysisDepth>>
          [] msg.type = "bestmove" -> OnBestmove(msg.move, msg.req)
          [] msg.type = "analysis" -> OnAnalysis(msg.depth)
          [] OTHER -> OnErrorMessage
  /\ UNCHANGED <<workerRef, workerVars, toWorker>>

\* workerRef.current.onerror: an uncaught error event of the worker
WorkerError ==
  /\ workerRef
  /\ wstate \in {"stockfish", "fallback"}
  /\ errorCallbackRef # 0
  /\ gs' = OnErrorResult(gs)
  /\ calls' = Failed(calls, errorCallbackRef, "onerror")
  /\ errorCallbackRef' = 0
  /\ last' = Other
  /\ UNCHANGED <<timers, isReady, workerRef, pendingCallbackRef, timeoutRef,
                 analysisDepth, workerVars, toWorker, toMain>>

\* terminate(): the worker is killed, the worker reference dropped and the
\* session marked not ready; the refs and the armed timers stay as they are.
\* What the worker had posted and the main thread had not yet handled is
\* still dispatched (kept) or discarded, as the browser decides.
Terminate(kept) ==
  /\ workerRef \/ isReady
  /\ isReady' = FALSE
  /\ workerRef' = FALSE
  /\ IF workerRef
       THEN /\ wstate' = "terminated"
            /\ sfProbe' = FALSE
            /\ sfSearch' = <<>>
            /\ wTimers' = <<>>
            /\ toWorker' = <<>>
            /\ toMain' = IF kept THEN toMain ELSE <<>>
       ELSE /\ kept
            /\ UNCHANGED <<wstate, sfProbe, sfSearch, wTimers, toWorker, toMain>>
  /\ last' = Other
  /\ UNCHANGED <<gs, timers, pendingCallbackRef, errorCallbackRef, timeoutRef,
                 analysisDepth, isEngineReady, calls>>

\* ---------------------------------------------------------- worker actions
\* the moves of SimpleChessEngine's list that belong to the fragment
FallbackMoves == {"e7e5", "b8c6", "b1c3"}

WorkerTimer(kind, req, fen) == [kind |-> kind, req |-> req, fen |-> fen]

\* the position command handed to Stockfish without the stop before it
UciCommandsNoStop(fen) ==
  << [cmd |-> "position", fen |-> fen],
     [cmd |-> "go", fen |-> NoPosition] >>

\* what self.onmessage posts to Stockfish for a position command, in order
UciCommands(fen) ==
  << [cmd |-> "stop", fen |-> NoPosition],
     [cmd |-> "position", fen |-> fen],
     [cmd |-> "go", fen |-> NoPosition] >>

\* stop: every search of Stockfish still running is told to end
StopAll(ss) == [i \in DOMAIN ss |-> [ss[i] EXCEPT !.stopped = TRUE]]

\* Stockfish takes the commands cs one by one: ss are its searches that have
\* not printed their bestmove yet, pos the position set last; req is
\* history, the request the commands were posted for
RECURSIVE SfSendAll(_, _, _, _)
SfSendAll(ss, pos, cs, req) ==
  IF cs = <<>> THEN ss
  ELSE LET c == Head(cs)
       IN CASE c.cmd = "stop" -> SfSendAll(StopAll(ss), pos, Tail(cs), req)
            [] c.cmd = "position" -> SfSendAll(ss, c.fen, Tail(cs), req)
            [] OTHER ->
                 SfSendAll(Append(ss, [fen |-> pos, req |-> req, stopped |-> FALSE]),
                           pos, Tail(cs), req)

\* the worker script runs: importScripts succeeds and Stockfish is
\* configured and probed, or it fails and the fallback engine is used
WorkerBoot(loaded) ==
  /\ wstate = "booting"
  /\ IF loaded
       THEN /\ wstate' = "stockfish"
            /\ sfProbe' = TRUE
            /\ UNCHANGED <<isEngineReady, toMain>>
       ELSE /\ wstate' = "fallback"
            /\ isEngineReady' = TRUE
            /\ toMain' = Append(toMain, Msg("ready", "", 0, 0, InitialPosition))
            /\ UNCHANGED sfProbe
  /\ last' = Other
  /\ UNCHANGED <<gs, timers, sessionVars, sfSearch, wTimers, toWorker, calls>>

\* Stockfish answers the isready probe; stockfish.onmessage sees readyok
SfReadyOk ==
  /\ sfProbe
  /\ Len(toMain) < MaxChan
  /\ sfProbe' = FALSE
  /\ isEngineReady' = TRUE
  /\ toMain' = Append(toMain, Msg("ready", "", 0, 0, InitialPosition))
  /\ last' = Other
  /\ UNCHANGED <<gs, timers, sessionVars, wstate, sfSearch, wTimers, toWorker, calls>>

\* self.onmessage arming the backup timeout whichever engine answers
WorkerOnMessageAlwaysBackup ==
  /\ wstate \in {"stockfish", "fallback"}
  /\ toWorker # <<>>
  /\ toWorker' = Tail(toWorker)
  /\ LET cmd == Head(toWorker)
     IN IF wstate = "stockfish" /\ isEngineReady
          THEN /\ sfSearch' = SfSendAll(sfSearch, NoPosition, UciCommands(cmd.fen), cmd.req)
               /\ wTimers' = Append(wTimers, WorkerTimer("backup", cmd.req, InitialPosition))
          ELSE /\ wTimers' = wTimers \o <<WorkerTimer("fallback", cmd.req, cmd.fen),
                                          WorkerTimer("backup", cmd.req, InitialPosition)>>
               /\ UNCHANGED sfSearch
  /\ last' = Other
  /\ UNCHANGED <<gs, timers, sessionVars, wstate, isEngineReady, sfProbe, toMain, calls>>

\* self.onmessage of the worker, for the oldest posted command
WorkerOnMessage ==
  /\ wstate \in {"stockfish", "fallback"}
  /\ toWorker # <<>>
  /\ toWorker' = Tail(toWorker)
  /\ LET cmd == Head(toWorker)
     IN IF wstate = "stockfish" /\ isEngineReady
          THEN /\ sfSearch' = SfSendAll(sfSearch, NoPosition, UciCommands(cmd.fen), cmd.req)
               /\ wTimers' = Append(wTimers, WorkerTimer("backup", cmd.req, InitialPosition))
          ELSE /\ wTimers' = Append(wTimers, WorkerTimer("fallback", cmd.req, cmd.fen))
               /\ UNCHANGED sfSearch
  /\ last' = Other
  /\ UNCHANGED <<gs, timers, sessionVars, wstate, isEngineReady, sfProbe, toMain, calls>>

\* a timer of the worker fires: the backup timeout of a search reports an
\* error, the fallback engine's delay ends with a move picked at random
WorkerTimerFire(i, move) ==
  /\ i \in 1..Len(wTimers)
  /\ wTimers[i].kind = "backup" => \A j \in 1..(i - 1) : wTimers[j].kind # "backup"
  /\ Len(toMain) < MaxChan
  /\ wTimers' = RemoveAt(wTimers, i)
  /\ IF wTimers[i].kind = "backup"
       THEN /\ move = NoMove
            /\ sfSearch' = StopAll(sfSearch)
            /\ toMain' = Append(toMain, Msg("error", "", 0, wTimers[i].req, InitialPosition))
       ELSE /\ move \in FallbackMoves
            /\ sfSearch' = sfSearch
            /\ toMain' = Append(toMain, Msg("bestmove", move, 0, wTimers[i].req, wTimers[i].fen))
  /\ calls' = Answered(calls, wTimers[i].req)
  /\ last' = Other
  /\ UNCHANGED <<gs, timers, sessionVars, wstate, isEngineReady, sfProbe, toWorker>>

\* Stockfish prints an info line of the running search; stockfish.onmessage
\* forwards its depth
SfInfo(depth) ==
  /\ sfSearch # <<>>
  /\ Len(toMain) < MaxChan
  /\ toMain' = Append(toMain, Msg("analysis", "", depth, Head(sfSearch).req, InitialPosition))
  /\ last' = Other
  /\ UNCHANGED <<gs, timers, sessionVars, workerVars, toWorker, calls>>

\* Stockfish ends its oldest search with a bestmove line: a legal move of the
\* searched position, or (none) when it has no legal move;
\* stockfish.onmessage forwards the move, or reports an error for (none)
SfBestmove(move) ==
  /\ sfSearch # <<>>
  /\ Len(toMain) < MaxChan
  /\ LET s == Head(sfSearch)
     IN /\ IF LegalMoves(s.fen) = {} THEN move = NoMove ELSE move \in LegalMoves(s.fen)
        /\ toMain' = Append(toMain,
                      IF move # NoMove THEN Msg("bestmove", move, 0, s.req, s.fen)
                                       ELSE Msg("error", "", 0, s.req, InitialPosition))
  /\ sfSearch' = Tail(sfSearch)
  /\ calls' = Answered(calls, Head(sfSearch).req)
  /\ last' = Other
  /\ UNCHANGED <<gs, timers, sessionVars, wstate, isEngineReady, sfProbe, wTimers,
                 toWorker>>

\* ------------------------------------------------------------ specification
Names == {"Ann", " "}
Genders == {"male"}
Colors == {"white", "black"}

Next ==
  \/ \E n \in Names : SetName(n)
  \/ \E x \in Genders : SetGender(x)
  \/ \E c \in Colors : SetColor(c)
  \/ \E via \in {"button", "enter"} : StartGame(via)
  \/ ResetGame
  \/ \E m \in Moves : OnDrop(m)
  \/ \E i \in 1..MaxTimers : TimerFire(i)
  \/ SessionOnMessage
  \/ \E loaded \in BOOLEAN : WorkerBoot(loaded)
  \/ SfReadyOk
  \/ WorkerOnMessage
  \/ \E i \in 1..MaxReq, move \in FallbackMoves \cup {NoMove} : WorkerTimerFire(i, move)
  \/ \E move \in Moves \cup {NoMove} : SfBestmove(move)

Spec == Init /\ [][Next]_vars

\* the same with the click-to-move input of the board
NextClick == Next \/ \E sq \in Squares : OnSquareClick(sq)
SpecClick == Init /\ [][NextClick]_vars

\* the same with the info lines of Stockfish and the error event of the worker
NextUnit == Next \/ (\E d \in 1..MaxDepth : SfInfo(d)) \/ WorkerError
SpecUnit == Init /\ [][NextUnit]_vars


\* the event loops run: an armed timer that is due fires, and the worker
\* handles the command it was posted
SpecFair ==
  /\ Spec
  /\ WF_vars(\E i \in 1..MaxTimers : TimerFire(i))
  /\ WF_vars(WorkerOnMessage)

\* the same with the error event of the worker
NextError == Next \/ WorkerError
SpecError == Init /\ [][NextError]_vars

\* the same with terminate(), which the hook returns to its caller
NextTerminate == Next \/ \E kept \in BOOLEAN : Terminate(kept)
SpecTerminate == Init /\ [][NextTerminate]_vars


\* ------------------------------------------------------------------ claims
Requests == 1..Len(calls)
Callbacks(r) == calls[r].moves + calls[r].errors
RECURSIVE Tags(_)
\* the requests named by the elements of a sequence
Tags(q) == IF q = <<>> THEN {} ELSE {Head(q).req} \cup Tags(Tail(q))
\* nothing can invoke a callback of request r any more
Settled(r) ==
  /\ pendingCallbackRef # r
  /\ errorCallbackRef # r
  /\ timers = <<>>
  /\ r \notin Tags(toWorker) \cup Tags(sfSearch) \cup Tags(wTimers) \cup Tags(toMain)
\* workerRef.current.onmessage handles a message of the given type
Handles(type) == SessionOnMessage /\ Head(toMain).type = type
\* no callback of any request is invoked in the step
NoCallback == \A r \in Requests : calls'[r].moves = calls[r].moves /\ calls'[r].errors = calls[r].errors
\* the step changes neither the position nor the move log
SamePosition == gs'.gamePosition = gs.gamePosition /\ gs'.moveHistory = gs.moveHistory
\* the step appends a move to the move log of the running game
MoveApplied == Len(gs'.moveHistory) = Len(gs.moveHistory) + 1
\* the side to move in the position is the side the player chose
PlayerToMove(g) == (g.gamePosition.turn = "w") = (g.playerColor = "white")

\* C1: every requestMove call invokes exactly one of the callbacks passed to
\* it: never both onMove and onError, and, once nothing of the call is left
\* that could invoke one, not neither.
C1_ExactlyOneCallback ==
  \A r \in Requests :
    /\ Callbacks(r) <= 1
    /\ Settled(r) => Callbacks(r) = 1

\* C2: at most one request is outstanding in the session: never two deadline
\* timers armed, never callbacks of two requests stored.
C2_OneOutstanding ==
  /\ Cardinality(DeadlineTimers) <= 1
  /\ (pendingCallbackRef # 0 /\ errorCallbackRef # 0) => pendingCallbackRef = errorCallbackRef

\* C3: the orchestrator calls requestMove only when no request it issued
\* before is unresolved, that is accepted with neither callback invoked yet.
C3_NoOverlappingRequest ==
  [][(Len(calls') > Len(calls) /\ calls'[Len(calls')].accepted) =>
       \A r \in Requests : calls[r].accepted => Callbacks(r) > 0]_vars

\* C4: a bestmove computed for a request that a later requestMove call has
\* superseded invokes no callback and leaves the position alone.
C4_SupersededDiscarded ==
  [][(Handles("bestmove") /\ pendingCallbackRef > Head(toMain).req)
       => (NoCallback /\ SamePosition)]_vars

\* C5: when the deadline timer of the outstanding request fires before a
\* callback of that request was invoked, its onError is invoked and both
\* callback slots are cleared; and a bestmove handled after a deadline failed
\* the latest request invokes no callback and changes nothing of the game.
C5_DeadlineThenLate ==
  [][/\ \A i \in DeadlineTimers :
          (/\ TimerFire(i)
           /\ pendingCallbackRef = timers[i].req
           /\ errorCallbackRef = timers[i].req
           /\ Callbacks(timers[i].req) = 0)
          => (/\ calls'[timers[i].req].errors = 1
              /\ calls'[timers[i].req].moves = 0
              /\ ~gs'.botThinking
              /\ SamePosition
              /\ pendingCallbackRef' = 0
              /\ errorCallbackRef' = 0)
     /\ (/\ Handles("bestmove")
         /\ calls # <<>>
         /\ calls[Len(calls)].by = "deadline")
          => (NoCallback /\ gs' = gs)]_vars
\* the deadline failed the latest request and its bestmove came afterwards
C5_Witness ==
  /\ calls # <<>>
  /\ calls[Len(calls)].by = "deadline"
  /\ calls[Len(calls)].dropped
  /\ calls[Len(calls)].moves = 0
  /\ calls[Len(calls)].errors = 1
  /\ pendingCallbackRef = 0

\* C6: an applied engine move was computed for the position it is applied to,
\* and for a request issued in the running game: a bestmove of a request
\* issued before a resetGame or startGame changes neither position nor log.
C6_NoStaleMoveApplied ==
  [][Handles("bestmove") =>
       /\ MoveApplied => Head(toMain).fen = gs.gamePosition
       /\ calls[Head(toMain).req].stale => SamePosition]_vars

\* C7: isPlayerTurn flips with every applied move and keeps its value in
\* every other step that neither starts nor resets a game (rejected moves,
\* engine failures).
C7_TurnAlternates ==
  [][/\ MoveApplied => gs'.isPlayerTurn # gs.isPlayerTurn
     /\ (gs'.gameStarted = gs.gameStarted /\ ~MoveApplied) => gs'.isPlayerTurn = gs.isPlayerTurn]_vars

\* C8: while a game is started, isPlayerTurn is true exactly when the side to
\* move in gamePosition is the colour the player chose.
C8_TurnMatchesPosition == gs.gameStarted => (gs.isPlayerTurn = PlayerToMove(gs))

\* C9: a drop the rules engine does not accept as a legal move changes
\* neither gamePosition nor moveHistory nor isPlayerTurn, arms no timer and
\* issues no request, and leaves onDrop's guard as it was, so that the player
\* can drop again.
C9_IllegalDropNoChange ==
  [][\A m \in Moves :
       (OnDrop(m) /\ ~Legal(gs.gamePosition, m))
         => (/\ SamePosition
             /\ gs'.isPlayerTurn = gs.isPlayerTurn
             /\ timers' = timers
             /\ calls' = calls
             /\ toWorker' = toWorker
             /\ gs'.gameStarted
             /\ DropGuard(gs') = DropGuard(gs))]_vars
\* the rules engine has just rejected a drop made on the player's turn
C9_Witness ==
  /\ last = "illegal"
  /\ gs.gameStarted
  /\ DropGuard(gs)
  /\ gs.moveHistory # <<>>

\* C10: a drop changes nothing when no game is in progress (not started, or
\* ended by checkmate or draw) or when it is not the player's turn.
C10_DropOnlyInProgress ==
  [][\A m \in Moves :
       (OnDrop(m) /\ (~gs.gameStarted \/ IsGameOver(gs.gamePosition) \/ ~gs.isPlayerTurn))
         => (gs' = gs /\ timers' = timers)]_vars

\* a human move is applied in the step: the log grows and no message of the
\* worker is consumed
HumanMoveApplied == MoveApplied /\ toMain' = toMain
\* onError of some request is invoked in the step
ErrorInvoked ==
  \E r \in 1..Len(calls') :
    calls'[r].errors > (IF r \in Requests THEN calls[r].errors ELSE 0)

\* C11: an applied human move arms the delayed requestBotMove with exactly
\* the resulting position when that position is not game-over, and arms
\* nothing when it is; when the delayed requestBotMove runs, requestMove is
\* called, and the command an accepted call posts carries that position.
C11_RequestAfterHumanMove ==
  [][/\ HumanMoveApplied =>
          timers' = IF IsGameOver(gs'.gamePosition)
                      THEN timers
                      ELSE Append(timers, BotTimer(BotMoveDelay, gs'.gamePosition, isReady))
     /\ \A i \in BotTimers :
          TimerFire(i) =>
            /\ Len(calls') = Len(calls) + 1
            /\ calls'[Len(calls')].accepted =>
                 toWorker' = Append(toWorker, [command |-> "position", fen |-> timers[i].fen,
                                               req |-> Len(calls')])]_vars
\* the command posted for the position the player's move produced awaits the worker
C11_Witness ==
  /\ gs.gameStarted
  /\ gs.moveHistory # <<>>
  /\ ~gs.isPlayerTurn
  /\ gs.botThinking
  /\ toWorker # <<>>
  /\ Head(toWorker).fen = gs.gamePosition

\* C12: a step that invokes onError (deadline, error message of the worker,
\* error event of the worker, rejection by a session that is not ready)
\* changes nothing of the game state but botThinking, which it clears:
\* position, move log and turn owner stay as they were.
C12_FailureKeepsGame ==
  [][ErrorInvoked => gs' = [gs EXCEPT !.botThinking = FALSE]]_vars
\* the error event of the worker has failed the request of a running game,
\* which is still on the opponent's turn
C12_Witness ==
  /\ gs.gameStarted
  /\ ~gs.isPlayerTurn
  /\ ~gs.botThinking
  /\ calls # <<>>
  /\ calls[Len(calls)].by = "onerror"
  /\ ~calls[Len(calls)].stale

\* C13: when onMove is invoked with a move the rules engine rejects in the
\* current position, the game state the step leaves differs from the one an
\* ordinary engine failure leaves (a distinct signal), and the session is
\* torn down and rebuilt: a new worker is booting.
C13_IllegalEngineMoveIsFault ==
  [][(/\ Handles("bestmove")
      /\ pendingCallbackRef # 0
      /\ ~Legal(gs.gamePosition, Head(toMain).move))
       => (gs' # OnErrorResult(gs) /\ wstate' = "booting")]_vars

\* the legal move of p that the rules engine writes as san
MoveOfSan(p, san) ==
  LET found == {m \in LegalMoves(p) : San(p, m) = san}
  IN IF found = {} THEN NoMove ELSE CHOOSE m \in found : TRUE
RECURSIVE Replay(_, _)
\* the position reached from p by the moves of the log h, in order
Replay(p, h) ==
  IF h = <<>> THEN p
  ELSE LET m == MoveOfSan(p, Head(h))
       IN IF m = NoMove THEN NoPosition ELSE Replay(Moved(p, m), Tail(h))

\* C14: gamePosition is always the position reached from the initial
\* position by the moves of moveHistory, in order; an applied engine move is
\* appended to the log as the last entry and leaves the turn with the player.
C14_PositionIsReplay ==
  /\ [](Replay(InitialPosition, gs.moveHistory) = gs.gamePosition)
  /\ [][(Handles("bestmove") /\ MoveApplied) =>
          /\ gs'.moveHistory = Append(gs.moveHistory, San(gs.gamePosition, Head(toMain).move))
          /\ gs'.isPlayerTurn]_vars
\* the player's move and the engine's reply are in the log, in this order,
\* and the player is to move
C14_Witness ==
  /\ gs.gameStarted
  /\ gs.playerColor = "white"
  /\ gs.moveHistory = <<"f3", "e5">>
  /\ gs.gamePosition = Moved(Moved(InitialPosition, "f2f3"), "e7e5")
  /\ gs.isPlayerTurn

\* a step of the running game, other than resetGame, that calls requestMove
\* or arms a delayed requestBotMove for the position the game is in
Reissue ==
  /\ Next
  /\ gs'.gameStarted
  /\ gs'.gamePosition = gs.gamePosition
  /\ \/ Len(calls') > Len(calls)
     \/ /\ Len(timers') > Len(timers)
        /\ timers'[Len(timers')].kind = "bot"
        /\ timers'[Len(timers')].fen = gs.gamePosition

\* C15: when the last request of the running game has failed by its deadline
\* (onError invoked once, no move applied since), the engine being still to
\* move, a step that issues a request again without resetting the game is
\* possible.
C15_RetryAfterTimeout ==
  (/\ gs.gameStarted
   /\ ~gs.isPlayerTurn
   /\ ~IsGameOver(gs.gamePosition)
   /\ calls # <<>>
   /\ calls[Len(calls)].accepted
   /\ calls[Len(calls)].by = "deadline"
   /\ calls[Len(calls)].errors = 1
   /\ calls[Len(calls)].moves = 0
   /\ ~calls[Len(calls)].stale
   /\ Len(calls) < MaxReq
   /\ Len(timers) < MaxTimers
   /\ Len(toWorker) < MaxChan)
    => ENABLED Reissue

\* C16: whenever botThinking is true it is false again later, whatever the
\* worker does, provided armed timers fire.
C16_ThinkingEnds == gs.botThinking ~> ~gs.botThinking
\* the orchestrator waits for the engine, and only the deadline of the
\* request is left to end the wait: the worker has nothing posted
C16_Witness ==
  /\ gs.gameStarted
  /\ gs.botThinking
  /\ errorCallbackRef # 0
  /\ \E i \in DeadlineTimers : timers[i].req = errorCallbackRef
  /\ toMain = <<>>

\* C17: in every reachable state resetGame would give the game state of a
\* freshly constructed component, a second resetGame would give the same
\* state again, and every resetGame step does leave that state.
C17_ResetIsInitial ==
  /\ [](/\ ResetState(gs) = InitialGameState
        /\ ResetState(ResetState(gs)) = ResetState(gs))
  /\ [][ResetGame => gs' = InitialGameState]_vars
\* a game that was played as black, with a move made, has been reset
C17_Witness ==
  /\ gs = InitialGameState
  /\ calls # <<>>
  /\ calls[1].stale
  /\ calls[1].moves = 1

\* C18: once the position of the running game is checkmate or a draw, no
\* step other than resetGame changes gamePosition or moveHistory.
C18_EndedIsTerminal ==
  [][(/\ gs.gameStarted
      /\ gs.moveHistory # <<>>
      /\ IsGameOver(gs.gamePosition)
      /\ gs'.gameStarted)
       => SamePosition]_vars

\* a step in which requestMove is called and rejects the call on the spot:
\* its onError has run once and its onMove never, nothing was posted to the
\* worker, no deadline timer was armed, no callback or timer handle was stored
RejectedOnTheSpot ==
  /\ Len(calls') = Len(calls) + 1
  /\ ~calls'[Len(calls')].accepted
  /\ calls'[Len(calls')].errors = 1
  /\ calls'[Len(calls')].moves = 0
  /\ ~gs'.botThinking
  /\ toWorker' = toWorker
  /\ Cardinality(DeadlineTimers') = Cardinality(DeadlineTimers)
  /\ pendingCallbackRef' = pendingCallbackRef
  /\ errorCallbackRef' = errorCallbackRef
  /\ timeoutRef' = timeoutRef

\* C19: after terminate() the worker stays terminated and the worker
\* reference stays null; every later requestMove invokes onError at once,
\* posts nothing, arms no timer and stores no callback, and no request is
\* accepted any more.
C19_TerminatedForGood ==
  [][wstate = "terminated"
       => /\ wstate' = "terminated"
          /\ ~workerRef'
          /\ toWorker' = <<>>
          /\ (Len(calls') > Len(calls) => RejectedOnTheSpot)]_vars

\* a request was made after terminate() and rejected for want of a worker,
\* in a session that had accepted a request before
C19_Witness ==
  /\ wstate = "terminated"
  /\ calls # <<>>
  /\ calls[Len(calls)].by = "noworker"
  /\ \E r \in Requests : calls[r].accepted

\* C20: a requestMove made while the session is not yet ready is rejected on
\* the spot, and a rejected request never has its onMove invoked later nor
\* its onError a second time.
C20_NotReadyRejected ==
  /\ [][(~isReady /\ Len(calls') > Len(calls)) => RejectedOnTheSpot]_vars
  /\ [](\A r \in Requests :
          ~calls[r].accepted => calls[r].moves = 0 /\ calls[r].errors = 1)

\* a request was rejected before the worker reported ready, and the session
\* has become ready since
C20_Witness ==
  /\ calls # <<>>
  /\ calls[1].by = "notready"
  /\ isReady
  /\ workerRef

\* Stockfish has answered the isready probe of the worker script with readyok
ProbeConfirmed == wstate = "stockfish" /\ isEngineReady

\* C21: the ready flag of the session is set only once the computation unit
\* has confirmed the readiness probe, and once set it is set for good, so the
\* session becomes ready exactly once.
C21_ReadyOnlyOnProbe ==
  /\ [](isReady => ProbeConfirmed)
  /\ [][isReady => isReady']_vars

\* C22: handling an analysis message changes analysisDepth and nothing else
\* of the session or the game: the stored callbacks, the deadline timer, the
\* position and the turn stay as they are and no callback is invoked.
C22_AnalysisNotTerminal ==
  [][Handles("analysis")
       => /\ analysisDepth' = Head(toMain).depth
          /\ gs' = gs
          /\ timers' = timers
          /\ calls' = calls
          /\ pendingCallbackRef' = pendingCallbackRef
          /\ errorCallbackRef' = errorCallbackRef
          /\ timeoutRef' = timeoutRef
          /\ isReady' = isReady]_vars

\* an analysis message has been handled and the request it belongs to is
\* still pending, its deadline armed
C22_Witness ==
  /\ analysisDepth > 0
  /\ pendingCallbackRef # 0
  /\ errorCallbackRef = pendingCallbackRef
  /\ timeoutRef = pendingCallbackRef
  /\ \E i \in DeadlineTimers : timers[i].req = pendingCallbackRef
  /\ gs.botThinking

\* Spec with the info lines of Stockfish
NextInfo == Next \/ \E d \in 1..MaxDepth : SfInfo(d)
SpecInfo == Init /\ [][NextInfo]_vars

\* C23: the worker posts at most one terminal message, bestmove or error,
\* for each position command it was sent.
C23_OneTerminalPerCommand ==
  \A r \in Requests : calls[r].terminals <= 1

\* C24: in every implementation of the engine hook the deadline of
\* requestMove is longer than the worker's backup timeout, which is longer
\* than the time budget of the search; every deadline timer armed is armed
\* with such a delay.
C24_DeadlineExceedsBackup ==
  /\ \A h \in HookTimings :
       /\ h.deadline > h.backup
       /\ \A b \in h.budget : h.backup > b
  /\ \A i \in DeadlineTimers : timers[i].delay > BackupTimeout

\* C25: when a delayed requestBotMove fires, the game is started and not
\* over, it is the engine's turn, and the position it submits is the
\* current position of the game.
C25_RequestOnlyInProgress ==
  [][\A i \in 1..MaxTimers :
       (i \in BotTimers /\ TimerFire(i))
         => /\ gs.gameStarted
            /\ ~IsGameOver(gs.gamePosition)
            /\ ~gs.isPlayerTurn
            /\ timers[i].fen = gs.gamePosition]_vars

\* C26: startGame changes nothing unless the trimmed playerName is non-empty
\* and a gender is selected; a step that leaves Setup is taken with both
\* set, and the game then starts from the initial position with an empty
\* move log, the human to move exactly when playerColor is white.
C26_StartNeedsIdentity ==
  /\ [][\A via \in {"button", "enter"} :
          (StartGame(via) /\ (Trim(gs.playerName) = "" \/ gs.playerGender = ""))
            => (gs' = gs /\ timers' = timers /\ calls' = calls)]_vars
  /\ [][(~gs.gameStarted /\ gs'.gameStarted)
          => /\ Trim(gs.playerName) # ""
             /\ gs.playerGender # ""
             /\ gs'.playerName = gs.playerName
             /\ gs'.playerGender = gs.playerGender
             /\ gs'.playerColor = gs.playerColor
             /\ gs'.gamePosition = InitialPosition
             /\ gs'.moveHistory = <<>>
             /\ gs'.gameStatus = "Game in progress"
             /\ gs'.isPlayerTurn = (gs.playerColor = "white")]_vars

\* a game was started by a player who chose black: the engine is to move in
\* the initial position
C26_Witness ==
  /\ gs.gameStarted
  /\ gs.playerColor = "black"
  /\ ~gs.isPlayerTurn
  /\ gs.moveHistory = <<>>
  /\ gs.gamePosition = InitialPosition

\* C27: when terminate() returns no deadline timer is armed and no callback
\* is stored, and once the worker is terminated no callback of a request
\* made before is invoked.
C27_TerminateCancels ==
  /\ [][(\E kept \in BOOLEAN : Terminate(kept))
          => /\ DeadlineTimers' = {}
             /\ pendingCallbackRef' = 0
             /\ errorCallbackRef' = 0]_vars
  /\ [][wstate = "terminated"
          => \A r \in Requests : /\ calls'[r].moves = calls[r].moves
                                 /\ calls'[r].errors = calls[r].errors]_vars

\* C28: when the deadline timer of request r fires, no other request has its
\* onError invoked and no other request loses its stored onMove.
C28_OwnDeadlineOnly ==
  [][\A i \in 1..MaxTimers :
       (i \in DeadlineTimers /\ TimerFire(i))
         => \A q \in Requests \ {timers[i].req} :
              /\ calls'[q].errors = calls[q].errors
              /\ pendingCallbackRef = q => pendingCallbackRef' = q]_vars

\* a callback of request r is invoked in this step
Invoked(r) ==
  \/ calls'[r].moves > calls[r].moves
  \/ calls'[r].errors > calls[r].errors

\* C29: after a step that invokes a callback of an accepted request, both
\* stored callbacks are null and no deadline timer of that request is armed.
C29_SlotEmptyAfterOutcome ==
  [][\A r \in Requests :
       (calls[r].accepted /\ Invoked(r))
         => /\ pendingCallbackRef' = 0
            /\ errorCallbackRef' = 0
            /\ \A i \in DeadlineTimers' : timers'[i].req # r]_vars

\* C30: after every applied move gameStatus is: checkmate in the new
\* position, naming the side that made the move as the winner; else a draw;
\* else check; else 'Game in progress'.
C30_StatusAfterMove ==
  [][MoveApplied
       => LET p == gs'.gamePosition
          IN gs'.gameStatus =
               CASE IsCheckmate(p) ->
                      (IF gs.gamePosition.turn = "w" THEN "Checkmate! White wins!"
                                                     ELSE "Checkmate! Black wins!")
                 [] ~IsCheckmate(p) /\ IsDraw(p) -> "Draw!"
                 [] ~IsCheckmate(p) /\ ~IsDraw(p) /\ IsCheck(p) -> "Check!"
                 [] OTHER -> "Game in progress"]_vars

\* Black has mated: the move log ends with the mating move and the status
\* names Black
C30_Witness ==
  /\ gs.gameStarted
  /\ gs.moveHistory # <<>>
  /\ IsCheckmate(gs.gamePosition)
  /\ gs.gameStatus = "Checkmate! Black wins!"

\* C31: gameStarted becomes true only while the session is ready.
C31_StartOnlyWhenReady ==
  [][(~gs.gameStarted /\ gs'.gameStarted) => isReady]_vars

\* C32: botThinking and isPlayerTurn are never both true.
C32_ThinkingOnlyOnEngineTurn ==
  ~(gs.botThinking /\ gs.isPlayerTurn)

\* C33: whenever isReady is true a worker exists, and a requestMove made
\* while isReady is true is accepted.
C33_ReadyMeansWorker ==
  /\ [](isReady => workerRef)
  /\ [][(isReady /\ Len(calls') > Len(calls)) => calls'[Len(calls')].accepted]_vars

\* the human plays black and no move has been applied in the running game
BlackBeforeFirstMove ==
  gs.gameStarted /\ gs.playerColor = "black" /\ gs.moveHistory = <<>>

\* C34: a game started as black arms the request for the engine's first
\* move from the initial position; when that timer fires before any move
\* the request is accepted and the initial position posted to the worker;
\* and until a move of the engine has been applied no drop of the human is
\* applied.
C34_EngineOpensAsWhite ==
  /\ [][(~gs.gameStarted /\ gs'.gameStarted /\ gs.playerColor = "black")
          => timers' = Append(timers, BotTimer(FirstMoveDelay, InitialPosition, isReady))]_vars
  /\ [][\A i \in 1..MaxTimers :
          (/\ BlackBeforeFirstMove
           /\ i \in BotTimers
           /\ timers[i].delay = FirstMoveDelay
           /\ TimerFire(i))
            => /\ calls'[Len(calls')].accepted
               /\ toWorker' = Append(toWorker, [command |-> "position",
                                                fen |-> InitialPosition,
                                                req |-> Len(calls')])]_vars
  /\ [][BlackBeforeFirstMove => ~HumanMoveApplied]_vars
  /\ [](BlackBeforeFirstMove => ~gs.isPlayerTurn)

\* how many elements of the sequence q belong to request r
CountFor(q, r) == Cardinality({i \in 1..Len(q) : q[i].req = r})

\* C35: with the fallback engine the worker posts nothing but the one ready
\* message of its start and bestmove messages; each position command is
\* either still queued, or waiting for its delay, or was answered by
\* exactly one message.
C35_FallbackAnswersOnce ==
  /\ [][(wstate = "booting" /\ wstate' = "fallback")
          => toMain' = Append(toMain, Msg("ready", "", 0, 0, InitialPosition))]_vars
  /\ [][(wstate = "fallback" /\ Len(toMain') > Len(toMain))
          => /\ toMain' = Append(toMain, toMain'[Len(toMain')])
             /\ toMain'[Len(toMain')].type = "bestmove"]_vars
  /\ [](wstate = "fallback"
          => \A r \in Requests :
               calls[r].accepted
                 => CountFor(toWorker, r) + CountFor(wTimers, r) + calls[r].terminals = 1)

\* the fallback engine has answered a request and its move was applied
C35_Witness ==
  /\ wstate = "fallback"
  /\ \E r \in Requests : calls[r].terminals = 1 /\ calls[r].moves = 1

\* C37: for a position command the worker posts stop, then the position,
\* then go to Stockfish, so that every search but the one started last has
\* been told to stop.
C37_StopBeforeGo ==
  /\ \A i \in 1..Len(toWorker) :
       LET cs == UciCommands(toWorker[i].fen)
       IN /\ Len(cs) = 3
          /\ cs[1].cmd = "stop"
          /\ cs[2].cmd = "position" /\ cs[2].fen = toWorker[i].fen
          /\ cs[3].cmd = "go"
  /\ \A i \in 1..(Len(sfSearch) - 1) : sfSearch[i].stopped
  /\ \A i \in 1..Len(sfSearch) : sfSearch[i].fen # NoPosition

\* a second search was started while the first had not printed its
\* bestmove: the first was told to stop, the second runs
C37_Witness ==
  /\ wstate = "stockfish"
  /\ Len(sfSearch) = 2
  /\ sfSearch[1].stopped
  /\ ~sfSearch[2].stopped
  /\ sfSearch[1].req # sfSearch[2].req

\* games of a human playing White against Stockfish that have brought the
\* h-pawn to h7, next to Black's knight on g8: the move log and the position
PromotionGames ==
  { [log |-> <<"h4", "g5", "hxg5", "h6", "gxh6", "Nc6", "h7", "e5">>,
     position |-> [InitialPosition EXCEPT !.h = "h7", !.bn = "c6", !.e = "e5",
                                          !.half = 0, !.full = 5]],
    [log |-> <<"h4", "g5", "hxg5", "h6", "gxh6", "e5", "h7", "Nc6">>,
     position |-> [InitialPosition EXCEPT !.h = "h7", !.bn = "c6", !.e = "e5",
                                          !.half = 1, !.full = 5]],
    [log |-> <<"h4", "g5", "hxg5", "h6", "gxh6", "e5", "h7", "Qh4">>,
     position |-> [InitialPosition EXCEPT !.h = "h7", !.q = "h4", !.e = "e5",
                                          !.half = 1, !.full = 5]] }

\* the game state of such a game, the human to move
PromotionState(game) ==
  [InitialGameState EXCEPT !.playerName = "Ann", !.playerGender = "male",
                           !.gameStarted = TRUE,
                           !.gamePosition = game.position,
                           !.moveHistory = game.log,
                           !.gameStatus = StatusOf(game.position),
                           !.moveCount = Len(game.log)]

\* the human is about to promote: Stockfish has answered every request so
\* far and its backup timeouts have passed, so the session holds no
\* callback and no timer; the requests made before are not recorded
InitPromotion ==
  /\ gs \in {PromotionState(game) : game \in PromotionGames}
  /\ timers = <<>>
  /\ workerRef = TRUE
  /\ isReady = TRUE
  /\ pendingCallbackRef = 0
  /\ errorCallbackRef = 0
  /\ timeoutRef = 0
  /\ analysisDepth = 0
  /\ wstate = "stockfish"
  /\ isEngineReady = TRUE
  /\ sfProbe = FALSE
  /\ sfSearch = <<>>
  /\ wTimers = <<>>
  /\ toWorker = <<>>
  /\ toMain = <<>>
  /\ calls = <<>>
  /\ last = Other

\* the game goes on from there: the human drops or clicks, the engine answers
NextPromotion ==
  \/ \E m \in Moves : OnDrop(m)
  \/ \E sq \in Squares : OnSquareClick(sq)
  \/ \E i \in 1..MaxTimers : TimerFire(i)
  \/ SessionOnMessage
  \/ WorkerOnMessage
  \/ \E i \in 1..MaxReq : WorkerTimerFire(i, NoMove)
  \/ \E move \in Moves \cup {NoMove} : SfBestmove(move)

SpecPromotion == InitPromotion /\ [][NextPromotion]_vars

\* the promotion the human can make in p from one square to another
PromotionAt(p, from, to) ==
  {m \in PromotionMoves : MoveFrom(m) = from /\ MoveTo(m) = to /\ Legal(p, m)}

\* C36: when the human, on their turn, drops a pawn that can promote on its
\* promotion square, or clicks that square with the pawn selected, the move
\* is applied and the pawn becomes a queen.
C36_HumanPromotesToQueen ==
  /\ [][\A m \in PromotionMoves :
          (OnDrop(m) /\ DropGuard(gs) /\ Legal(gs.gamePosition, m))
            => (MoveApplied /\ gs'.gamePosition = Moved(gs.gamePosition, "h7g8q"))]_vars
  /\ [][\A sq \in Squares :
          (/\ OnSquareClick(sq)
           /\ DropGuard(gs)
           /\ gs.selectedSquares.src # ""
           /\ PieceColorAt(gs.gamePosition, sq) = ""
           /\ PromotionAt(gs.gamePosition, gs.selectedSquares.src, sq) # {})
            => (MoveApplied /\ gs'.gamePosition = Moved(gs.gamePosition, "h7g8q"))]_vars
====
